---- MODULE Spec2Model ----
(***************************************************************************)
(* Model of mergekit's generalized task arithmetic merge:                  *)
(*   GTATask.execute, get_task_vectors and get_mask of                     *)
(*   mergekit/merge_methods/generalized_task_arithmetic.py.                *)
(*                                                                         *)
(* One behaviour is one call of GTATask.execute on one TensorMap.  The     *)
(* call is cut into the steps of the source (the loop of get_task_vectors  *)
(* one key at a time, then sparsify, weigh, mix, normalize, lambda scale,  *)
(* tall-mask trim, return); pc is the position of the call.                *)
(*                                                                         *)
(* Tensor elements are numbers of a small binary floating-point format:    *)
(* an element is an integer count of Unit-ths (1.0 is Unit), it carries    *)
(* at most MantBits significant bits, and every arithmetic operation       *)
(* rounds its exact result to the nearest such number, ties to even, as    *)
(* torch does for the tensor's dtype.  The exponent range is unbounded     *)
(* upwards (no overflow to Inf from finite inputs is modelled); a          *)
(* division by zero yields NonFinite, which every operation propagates.    *)
(***************************************************************************)
EXTENDS Integers, Sequences, FiniteSets, TLC

\* ------------------------------------------------------------------ bounds
\* largest number of non-base models in the TensorMap
MaxModels == 2
\* significant bits of the tensors' floating-point dtype
MantBits == 3
\* the number of format steps that make 1.0
Unit == 4

\* ------------------------------------------------------- scalar arithmetic
\* stands for NaN and +-Inf of the dtype
NonFinite == 2^30

Abs(x) == IF x < 0 THEN -x ELSE x

Min(a, b) == IF a < b THEN a ELSE b

RECURSIVE Spacing(_, _, _)
\* distance between neighbouring format numbers at magnitude n/d (n >= 0, d > 0)
Spacing(n, d, s) == IF n < (2^MantBits) * s * d THEN s ELSE Spacing(n, d, 2 * s)

\* n/d >= 0 rounded to the nearest format number, ties to the even mantissa
RoundPos(n, d) ==
    LET s  == Spacing(n, d, 1)
        ds == d * s
        q  == n \div ds
        r  == n % ds
    IN  IF 2 * r < ds THEN q * s
        ELSE IF 2 * r > ds THEN (q + 1) * s
        ELSE IF q % 2 = 0 THEN q * s ELSE (q + 1) * s

\* the rational n/d (d > 0) rounded into the dtype
Rnd(n, d) == IF n >= 0 THEN RoundPos(n, d) ELSE -RoundPos(-n, d)

IsFinite(a) == a # NonFinite

\* Tensor.to(dtype) on one element
Cast(a) == IF IsFinite(a) THEN Rnd(a, 1) ELSE NonFinite

FAdd(a, b) == IF IsFinite(a) /\ IsFinite(b) THEN Rnd(a + b, 1) ELSE NonFinite

FSub(a, b) == IF IsFinite(a) /\ IsFinite(b) THEN Rnd(a - b, 1) ELSE NonFinite

FMul(a, b) == IF IsFinite(a) /\ IsFinite(b) THEN Rnd(a * b, Unit) ELSE NonFinite

\* a / b; x/0 is Inf and 0/0 is NaN in torch
FDiv(a, b) ==
    IF ~IsFinite(a) \/ ~IsFinite(b) \/ b = 0 THEN NonFinite
    ELSE IF b > 0 THEN Rnd(a * Unit, b) ELSE Rnd(-(a * Unit), -b)

\* Tensor.sign() on one element
Sign(a) == IF a > 0 THEN 1 ELSE IF a < 0 THEN -1 ELSE 0

\* a boolean used as a factor: True is 1, False is 0
BoolMul(a, b) == IF ~IsFinite(a) THEN NonFinite ELSE IF b THEN a ELSE 0

\* ------------------------------------------------------------------ tensors
\* A tensor is [shape, data]: data holds the elements in row-major order.
RECURSIVE Prod(_)
Prod(s) == IF s = <<>> THEN 1 ELSE Head(s) * Prod(Tail(s))

Tensor(shape, data) == [shape |-> shape, data |-> data]

NoTensor == Tensor(<<>>, <<>>)

Numel(t) == Len(t.data)

\* x[: rows, : cols] of a 2-D tensor
Submatrix(x, rows, cols) ==
    LET nr == Min(x.shape[1], rows)
        nc == Min(x.shape[2], cols)
    IN  Tensor(<<nr, nc>>,
               [e \in 1..(nr * nc) |->
                   x.data[((e - 1) \div nc) * x.shape[2] + ((e - 1) % nc) + 1]])

\* torch's broadcasting rule for two shapes of one rank
Broadcastable(s, t) ==
    /\ Len(s) = Len(t)
    /\ \A a \in 1..Len(s) : s[a] = t[a] \/ s[a] = 1 \/ t[a] = 1

Max(a, b) == IF a > b THEN a ELSE b

\* the shape two broadcastable shapes broadcast to
BroadcastShape(s, t) == [a \in 1..Len(s) |-> Max(s[a], t[a])]

\* flat index into a tensor of shape xs of the element that broadcasts to
\* flat index e of a tensor of shape rs (rank 1 or 2, xs[a] \in {1, rs[a]})
BroadcastIndex(xs, rs, e) ==
    IF Len(rs) = 1
    THEN IF xs[1] = 1 THEN 1 ELSE e
    ELSE LET r == ((e - 1) \div rs[2]) + 1
             c == ((e - 1) % rs[2]) + 1
             xr == IF xs[1] = 1 THEN 1 ELSE r
             xc == IF xs[2] = 1 THEN 1 ELSE c
         IN  (xr - 1) * xs[2] + xc

\* x - y of two broadcastable tensors
BSub(x, y) ==
    LET rs == BroadcastShape(x.shape, y.shape)
    IN  Tensor(rs, [e \in 1..Prod(rs) |->
                      FSub(x.data[BroadcastIndex(x.shape, rs, e)],
                           y.data[BroadcastIndex(y.shape, rs, e)])])

\* ------------------------------------------------------------------- state
VARIABLES
    task,             \* the GTATask: method, base_model, weight_info, tensor_parameters, flags
    tensors,          \* the TensorMap handed to execute: an ordered dict, <<[model, t], ...>>
    tensors0,         \* history: the TensorMap as it was handed in
    pc,               \* position of the call
    keys,             \* get_task_vectors: list(tensors.keys())
    i,                \* get_task_vectors: index of the loop over keys
    base,             \* the base tensor
    tvs,              \* the descriptors (res of get_task_vectors, tvs of execute)
    warnings,         \* what logging.warning recorded: <<[kind, model], ...>>
    sparsify_calls,   \* history: number of invocations of sparsify
    deltas,           \* the stacked deltas
    weights,          \* the weights tensor
    weighted_deltas,
    mask,             \* the sign-consensus mask, <<>> when no consensus method
    divisor,
    mixed_delta,
    result            \* the tensor execute returns

vars == <<task, tensors, tensors0, pc, keys, i, base, tvs, warnings, sparsify_calls,
          deltas, weights, weighted_deltas, mask, divisor, mixed_delta, result>>

\* ------------------------------------------------------- the ordered dict
HasKey(d, m) == \E j \in 1..Len(d) : d[j].model = m

Get(d, m) == d[CHOOSE j \in 1..Len(d) : d[j].model = m].t

\* faulty variant: the entry is never deleted
DelMut(d, m) == d

\* del d[m]
Del(d, m) == SelectSeq(d, LAMBDA en : en.model # m)

\* list(d.keys())
Keys(d) == [j \in 1..Len(d) |-> d[j].model]

\* -------------------------------------------------------- get_task_vectors
\* x = tensors[model].to(base.dtype)
CastTensor(t) == Tensor(t.shape, [e \in 1..Numel(t) |-> Cast(t.data[e])])

\* x[: base.shape[0], : base.shape[1]] raises IndexError unless both are 2-D
CanSlice(x, b) == Len(b.shape) >= 2 /\ Len(x.shape) >= 2

\* the descriptor d built for one model
Descriptor(model, delta, params) ==
    [model |-> model, delta |-> delta,
     weight |-> params.weight, density |-> params.density,
     lambda |-> params.lambda, k |-> params.k,
     sparsified_delta |-> NoTensor, tall_mask |-> <<>>]

\* keys = list(tensors.keys()); base = tensors[base_model]; res = []
GetTaskVectorsStart ==
    /\ pc = "start"
    /\ keys' = Keys(tensors)
    /\ base' = Get(tensors, task.base_model)
    /\ tvs' = <<>>
    /\ i' = 1
    /\ pc' = "loop"
    /\ UNCHANGED <<task, tensors, tensors0, warnings, sparsify_calls, deltas, weights,
                   weighted_deltas, mask, divisor, mixed_delta, result>>

\* if model == base_model: continue
LoopBase ==
    /\ pc = "loop" /\ i <= Len(keys)
    /\ keys[i] = task.base_model
    /\ i' = i + 1
    /\ UNCHANGED <<task, tensors, tensors0, pc, keys, base, tvs, warnings, sparsify_calls,
                   deltas, weights, weighted_deltas, mask, divisor, mixed_delta, result>>

\* shapes agree: delta = x - base; del tensors[model]; res.append(d)
LoopAppend ==
    /\ pc = "loop" /\ i <= Len(keys)
    /\ keys[i] # task.base_model
    /\ LET model == keys[i]
           x == CastTensor(Get(tensors, model))
       IN  /\ x.shape = base.shape
           /\ tvs' = Append(tvs, Descriptor(model, BSub(x, base),
                                            task.tensor_parameters[model]))
           /\ tensors' = Del(tensors, model)
    /\ i' = i + 1
    /\ UNCHANGED <<task, tensors0, pc, keys, base, warnings, sparsify_calls,
                   deltas, weights, weighted_deltas, mask, divisor, mixed_delta, result>>

\* shapes differ, is_embed: x = x[: base.shape[0], : base.shape[1]], a warning,
\* then delta = x - base (broadcast), del tensors[model], res.append(d)
LoopSubmatrix ==
    /\ pc = "loop" /\ i <= Len(keys)
    /\ keys[i] # task.base_model
    /\ task.is_embed
    /\ LET model == keys[i]
           x == CastTensor(Get(tensors, model))
       IN  /\ x.shape # base.shape
           /\ CanSlice(x, base)
           /\ LET sub == Submatrix(x, base.shape[1], base.shape[2])
              IN  /\ Broadcastable(sub.shape, base.shape)
                  /\ tvs' = Append(tvs, Descriptor(model, BSub(sub, base),
                                                   task.tensor_parameters[model]))
           /\ warnings' = Append(warnings, [kind |-> "submatrix", model |-> model])
           /\ tensors' = Del(tensors, model)
    /\ i' = i + 1
    /\ UNCHANGED <<task, tensors0, pc, keys, base, sparsify_calls,
                   deltas, weights, weighted_deltas, mask, divisor, mixed_delta, result>>

\* shapes differ, is_embed, and the slice or the subtraction raises
\* (IndexError on a 1-D tensor, RuntimeError when the slice does not broadcast)
LoopRaise ==
    /\ pc = "loop" /\ i <= Len(keys)
    /\ keys[i] # task.base_model
    /\ task.is_embed
    /\ LET model == keys[i]
           x == CastTensor(Get(tensors, model))
       IN  /\ x.shape # base.shape
           /\ IF CanSlice(x, base)
              THEN /\ ~Broadcastable(Submatrix(x, base.shape[1], base.shape[2]).shape,
                                     base.shape)
                   /\ warnings' = Append(warnings,
                                         [kind |-> "submatrix", model |-> model])
              ELSE UNCHANGED warnings
    /\ pc' = "raised"
    /\ UNCHANGED <<task, tensors, tensors0, keys, i, base, tvs, sparsify_calls,
                   deltas, weights, weighted_deltas, mask, divisor, mixed_delta, result>>

\* faulty variant: the continue is missing, and the model is merged as if it
\* did not differ from the base
LoopSkipMut ==
    /\ pc = "loop" /\ i <= Len(keys)
    /\ keys[i] # task.base_model
    /\ ~task.is_embed
    /\ LET model == keys[i]
           x == CastTensor(Get(tensors, model))
       IN  /\ x.shape # base.shape
           /\ warnings' = Append(warnings, [kind |-> "skipping", model |-> model])
           /\ tvs' = Append(tvs, Descriptor(model, BSub(base, base),
                                            task.tensor_parameters[model]))
           /\ tensors' = Del(tensors, model)
    /\ i' = i + 1
    /\ UNCHANGED <<task, tensors0, pc, keys, base, sparsify_calls,
                   deltas, weights, weighted_deltas, mask, divisor, mixed_delta, result>>

\* shapes differ, not is_embed: a warning, continue
LoopSkip ==
    /\ pc = "loop" /\ i <= Len(keys)
    /\ keys[i] # task.base_model
    /\ ~task.is_embed
    /\ LET model == keys[i]
           x == CastTensor(Get(tensors, model))
       IN  /\ x.shape # base.shape
           /\ warnings' = Append(warnings, [kind |-> "skipping", model |-> model])
    /\ i' = i + 1
    /\ UNCHANGED <<task, tensors, tensors0, pc, keys, base, tvs, sparsify_calls,
                   deltas, weights, weighted_deltas, mask, divisor, mixed_delta, result>>

\* return res, base
GetTaskVectorsReturn ==
    /\ pc = "loop" /\ i > Len(keys)
    /\ pc' = "collected"
    /\ UNCHANGED <<task, tensors, tensors0, keys, i, base, tvs, warnings, sparsify_calls,
                   deltas, weights, weighted_deltas, mask, divisor, mixed_delta, result>>

\* --------------------------------------------------- external primitives
\* The boolean patterns the external primitives are let choose among, for a
\* tensor of n elements: every element, the odd-numbered elements, no element.
KeepPatterns(n) == { [e \in 1..n |-> TRUE], [e \in 1..n |-> e % 2 = 1] }

Patterns(n) == KeepPatterns(n) \cup { [e \in 1..n |-> FALSE] }

\* the factors by which sparsify may scale the entries it keeps
RescaleFactors(rescale) == IF rescale THEN {Unit, 2 * Unit} ELSE {Unit}

\* mergekit.sparsify.sparsify(delta, density, method, rescale, **kwargs):
\* some tensor of the shape of delta, entries dropped or kept (and rescaled)
SparsifyOutcomes(delta, rescale) ==
    { Tensor(delta.shape,
             [e \in 1..Numel(delta) |-> IF keep[e] THEN FMul(delta.data[e], f) ELSE 0]) :
        keep \in KeepPatterns(Numel(delta)), f \in RescaleFactors(rescale) }

\* mergekit.sparsify.get_tall_mask(delta, lambda, mixed_delta):
\* some boolean tensor of the shape of delta
TallMaskOutcomes(delta) == Patterns(Numel(delta))

\* ------------------------------------------------------------------ get_mask
RECURSIVE FSumFrom(_, _, _)
\* a float Tensor.sum(dim=0) at one element: col[j], ..., col[n] added to acc in order
FSumFrom(col, j, acc) ==
    IF j > Len(col) THEN acc ELSE FSumFrom(col, j + 1, FAdd(acc, col[j]))

RECURSIVE ISumFrom(_, _, _)
\* an int8 Tensor.sum(dim=0) at one element (accumulated in int64)
ISumFrom(col, j, acc) ==
    IF j > Len(col) THEN acc ELSE ISumFrom(col, j + 1, acc + col[j])

\* sum over dim 0 of a stack of float rows, at element e
SumDim0(rows, e) == FSumFrom([j \in 1..Len(rows) |-> rows[j][e]], 2, rows[1][e])

\* sum over dim 0 of a stack of int8 rows, at element e
SumDim0Int(rows, e) == ISumFrom([j \in 1..Len(rows) |-> rows[j][e]], 2, rows[1][e])

\* the sign as a number of mask_dtype: torch.int8, or the float dtype of base
SignAs(a, int8) == IF int8 THEN Sign(a) ELSE Sign(a) * Unit

\* (cond).to(mask_dtype) * 2 - 1
MajorityOf(cond, int8) ==
    LET one == IF int8 THEN 1 ELSE Unit IN IF cond THEN one ELSE -one

\* faulty variant: the count rule breaks its tie towards the negative sign
MajoritySignMut(delta, method, int8, e) ==
    IF method = "sum"
    THEN MajorityOf(SumDim0(delta, e) >= 0, int8)
    ELSE LET sign == [j \in 1..Len(delta) |-> [x \in 1..Len(delta[j]) |->
                                                  SignAs(delta[j][x], int8)]]
         IN  MajorityOf((IF int8 THEN SumDim0Int(sign, e)
                                 ELSE SumDim0(sign, e)) > 0, int8)

\* majority_sign of get_mask at element e of the stack delta (rows of data)
MajoritySign(delta, method, int8, e) ==
    IF method = "sum"
    THEN MajorityOf(SumDim0(delta, e) >= 0, int8)
    ELSE LET sign == [j \in 1..Len(delta) |-> [x \in 1..Len(delta[j]) |->
                                                  SignAs(delta[j][x], int8)]]
         IN  MajorityOf((IF int8 THEN SumDim0Int(sign, e)
                                 ELSE SumDim0(sign, e)) >= 0, int8)

\* get_mask(delta, method, mask_dtype): sign == majority_sign
GetMask(delta, method, int8) ==
    [j \in 1..Len(delta) |-> [e \in 1..Len(delta[j]) |->
        SignAs(delta[j][e], int8) = MajoritySign(delta, method, int8, e)]]

\* ------------------------------------------------------------------ execute
\* faulty variant: the early return is missing and torch.stack([]) raises
ReturnBaseMut ==
    /\ pc = "collected"
    /\ tvs = <<>>
    /\ pc' = "raised"
    /\ UNCHANGED <<task, tensors, tensors0, keys, i, base, tvs, warnings, sparsify_calls,
                   deltas, weights, weighted_deltas, mask, divisor, mixed_delta, result>>

\* not tvs: return base
ReturnBase ==
    /\ pc = "collected"
    /\ tvs = <<>>
    /\ result' = base
    /\ pc' = "done"
    /\ UNCHANGED <<task, tensors, tensors0, keys, i, base, tvs, warnings, sparsify_calls,
                   deltas, weights, weighted_deltas, mask, divisor, mixed_delta>>

\* faulty variant: consensus_ties is exempted from sparsification as well
SparsifiesFirstMut(method) ==
    method.sparsification_method # "none"
        /\ method.sparsification_method # "consensus_ta"
        /\ method.sparsification_method # "consensus_ties"

\* the condition under which execute sparsifies before aggregation
SparsifiesFirst(method) ==
    method.sparsification_method # "none"
        /\ method.sparsification_method # "consensus_ta"

\* for tv_info in tvs: tv_info["sparsified_delta"] = sparsify(...);
\* deltas = torch.stack([tv["sparsified_delta"] for tv in tvs])
Sparsify ==
    /\ pc = "collected"
    /\ tvs # <<>>
    /\ SparsifiesFirst(task.method)
    /\ \E out \in [1..Len(tvs) -> UNION { SparsifyOutcomes(tvs[j].delta, task.rescale) :
                                           j \in 1..Len(tvs) }] :
          /\ \A j \in 1..Len(tvs) : out[j] \in SparsifyOutcomes(tvs[j].delta, task.rescale)
          /\ tvs' = [j \in 1..Len(tvs) |-> [tvs[j] EXCEPT !.sparsified_delta = out[j]]]
    /\ deltas' = [j \in 1..Len(tvs) |-> tvs'[j].sparsified_delta]
    /\ sparsify_calls' = sparsify_calls + Len(tvs)
    /\ pc' = "stacked"
    /\ UNCHANGED <<task, tensors, tensors0, keys, i, base, warnings,
                   weights, weighted_deltas, mask, divisor, mixed_delta, result>>

\* deltas = torch.stack([tv["delta"] for tv in tvs])
StackRaw ==
    /\ pc = "collected"
    /\ tvs # <<>>
    /\ ~SparsifiesFirst(task.method)
    /\ deltas' = [j \in 1..Len(tvs) |-> tvs[j].delta]
    /\ pc' = "stacked"
    /\ UNCHANGED <<task, tensors, tensors0, keys, i, base, tvs, warnings, sparsify_calls,
                   weights, weighted_deltas, mask, divisor, mixed_delta, result>>

\* weights = torch.tensor([tv["weight"] for tv in tvs], dtype=deltas.dtype)
Weights(descriptors) == [j \in 1..Len(descriptors) |-> Cast(descriptors[j].weight)]

\* deltas * weights, the weights broadcast over every element
WeightedDeltas(ds, ws) ==
    [j \in 1..Len(ds) |-> [e \in 1..Numel(ds[j]) |-> FMul(ds[j].data[e], ws[j])]]

Weigh ==
    /\ pc = "stacked"
    /\ weights' = Weights(tvs)
    /\ weighted_deltas' = WeightedDeltas(deltas, weights')
    /\ pc' = "weighted"
    /\ UNCHANGED <<task, tensors, tensors0, keys, i, base, tvs, warnings, sparsify_calls,
                   deltas, mask, divisor, mixed_delta, result>>

\* faulty variant: the zero guard is missing
GuardMaskedMut(d) == d

\* divisor[divisor == 0] = 1
GuardMasked(d) == IF d = 0 THEN Unit ELSE d

\* divisor[divisor.abs() < 1e-8] = 1
\* (|d| / Unit < 1e-8, that is |d| * 10^8 < Unit, written without the large product)
GuardPlain(d) == IF IsFinite(d) /\ Abs(d) <= (Unit - 1) \div (10^8) THEN Unit ELSE d

\* (weighted_deltas * mask).sum(dim=0)
MaskedMix(wd, m) ==
    [e \in 1..Len(wd[1]) |->
        SumDim0([j \in 1..Len(wd) |-> [x \in 1..Len(wd[j]) |->
                                               BoolMul(wd[j][x], m[j][x])]], e)]

\* faulty variant: the divisor ignores the mask
MaskedDivisorMut(ws, m) ==
    [e \in 1..Len(m[1]) |-> GuardMasked(FSumFrom(ws, 2, ws[1]))]

\* (weights * mask).sum(dim=0), then the zero guard
MaskedDivisor(ws, m) ==
    [e \in 1..Len(m[1]) |->
        GuardMasked(SumDim0([j \in 1..Len(m) |-> [x \in 1..Len(m[j]) |->
                                                         BoolMul(ws[j], m[j][x])]], e))]

\* weighted_deltas.sum(dim=0)
PlainMix(wd) == [e \in 1..Len(wd[1]) |-> SumDim0(wd, e)]

\* weights.sum(dim=0), then the zero guard: one number, broadcast over the elements
PlainDivisor(ws, n) ==
    [e \in 1..n |-> GuardPlain(FSumFrom(ws, 2, ws[1]))]

\* the consensus branch: mask, mixed_delta, divisor
MixConsensus ==
    /\ pc = "weighted"
    /\ task.method.consensus_method # "none"
    /\ mask' = GetMask(weighted_deltas, task.method.consensus_method, task.int8_mask)
    /\ mixed_delta' = MaskedMix(weighted_deltas, mask')
    /\ divisor' = MaskedDivisor(weights, mask')
    /\ pc' = "mixed"
    /\ UNCHANGED <<task, tensors, tensors0, keys, i, base, tvs, warnings, sparsify_calls,
                   deltas, weights, weighted_deltas, result>>

\* the branch without a consensus method: mixed_delta, divisor
MixPlain ==
    /\ pc = "weighted"
    /\ task.method.consensus_method = "none"
    /\ mixed_delta' = PlainMix(weighted_deltas)
    /\ divisor' = PlainDivisor(weights, Len(weighted_deltas[1]))
    /\ pc' = "mixed"
    /\ UNCHANGED <<task, tensors, tensors0, keys, i, base, tvs, warnings, sparsify_calls,
                   deltas, weights, weighted_deltas, mask, result>>

\* mixed_delta /= divisor
Normalized(mixed, d) == [e \in 1..Len(mixed) |-> FDiv(mixed[e], d[e])]

\* if self.normalize: mixed_delta /= divisor
Normalize ==
    /\ pc = "mixed"
    /\ mixed_delta' = IF task.normalize THEN Normalized(mixed_delta, divisor)
                                        ELSE mixed_delta
    /\ pc' = "normalized"
    /\ UNCHANGED <<task, tensors, tensors0, keys, i, base, tvs, warnings, sparsify_calls,
                   deltas, weights, weighted_deltas, mask, divisor, result>>

\* lambda_factor = tvs[0]["lambda"]
LambdaFactor(descriptors) == descriptors[1].lambda

\* if rank_magnitude_sampling: mixed_delta *= lambda_factor
LambdaScale ==
    /\ pc = "normalized"
    /\ mixed_delta' =
          IF task.method.sparsification_method = "rank_magnitude_sampling"
          THEN [e \in 1..Len(mixed_delta) |-> FMul(mixed_delta[e], LambdaFactor(tvs))]
          ELSE mixed_delta
    /\ pc' = "scaled"
    /\ UNCHANGED <<task, tensors, tensors0, keys, i, base, tvs, warnings, sparsify_calls,
                   deltas, weights, weighted_deltas, mask, divisor, result>>

\* the condition under which execute applies the tall-mask trim
UsesTallMask(method) ==
    method.sparsification_method = "consensus_ta"
        \/ method.sparsification_method = "consensus_ties"

\* faulty variant: the threshold is off by one
ConsensusMaskMut(descriptors) ==
    [e \in 1..Len(descriptors[1].tall_mask) |->
        Cardinality({j \in 1..Len(descriptors) : descriptors[j].tall_mask[e]})
            >= descriptors[1].k - 1]

\* tall_masks.sum(dim=0) >= tvs[0]["k"]
ConsensusMask(descriptors) ==
    [e \in 1..Len(descriptors[1].tall_mask) |->
        Cardinality({j \in 1..Len(descriptors) : descriptors[j].tall_mask[e]})
            >= descriptors[1].k]

\* mixed_delta * consensus_mask
Trimmed(mixed, cm) == [e \in 1..Len(mixed) |-> BoolMul(mixed[e], cm[e])]

\* for consensus_ta / consensus_ties: the tall masks, the consensus mask, the trim
TallMaskTrim ==
    /\ pc = "scaled"
    /\ UsesTallMask(task.method)
    /\ \E out \in [1..Len(tvs) -> UNION { TallMaskOutcomes(tvs[j].delta) :
                                           j \in 1..Len(tvs) }] :
          /\ \A j \in 1..Len(tvs) : out[j] \in TallMaskOutcomes(tvs[j].delta)
          /\ tvs' = [j \in 1..Len(tvs) |-> [tvs[j] EXCEPT !.tall_mask = out[j]]]
    /\ mixed_delta' = Trimmed(mixed_delta, ConsensusMask(tvs'))
    /\ pc' = "trimmed"
    /\ UNCHANGED <<task, tensors, tensors0, keys, i, base, warnings, sparsify_calls,
                   deltas, weights, weighted_deltas, mask, divisor, result>>

\* any other sparsification method: no trim
NoTrim ==
    /\ pc = "scaled"
    /\ ~UsesTallMask(task.method)
    /\ pc' = "trimmed"
    /\ UNCHANGED <<task, tensors, tensors0, keys, i, base, tvs, warnings, sparsify_calls,
                   deltas, weights, weighted_deltas, mask, divisor, mixed_delta, result>>

\* faulty variant: the base is not added back
OutputMut(b, mixed) ==
    Tensor(b.shape, [e \in 1..Numel(b) |-> Cast(mixed[e])])

\* (base + mixed_delta).to(base.dtype)
Output(b, mixed) ==
    Tensor(b.shape, [e \in 1..Numel(b) |-> Cast(FAdd(b.data[e], mixed[e]))])

Return ==
    /\ pc = "trimmed"
    /\ result' = Output(base, mixed_delta)
    /\ pc' = "done"
    /\ UNCHANGED <<task, tensors, tensors0, keys, i, base, tvs, warnings, sparsify_calls,
                   deltas, weights, weighted_deltas, mask, divisor, mixed_delta>>

\* ------------------------------------------------------------------- inputs
\* SparsificationMethod, and "none" for no sparsification method
SparsificationMethods ==
    {"none", "magnitude", "magnitude_outliers", "rank_magnitude_sampling",
     "consensus_ta", "consensus_ties"}

\* ConsensusMethod, and "none" for no consensus method
ConsensusMethods == {"none", "count", "sum"}

\* the base model's reference; the other models are 1, 2, ...
BaseModel == 0

\* a tensor of the given shape holding v, -v, v, ... in row-major order
Fill(shape, v) ==
    Tensor(shape, [e \in 1..Prod(shape) |-> IF e % 2 = 1 THEN v ELSE -v])

\* the ordered dict with the base's entry at position p among the others
TensorMapOf(b, others, p) ==
    [j \in 1..(Len(others) + 1) |->
        IF j < p THEN [model |-> j, t |-> others[j]]
        ELSE IF j = p THEN [model |-> BaseModel, t |-> b]
        ELSE [model |-> j - 1, t |-> others[j - 1]]]

Task(sm, cm, embed, params, int8, norm, resc) ==
    [method |-> [sparsification_method |-> sm, consensus_method |-> cm],
     base_model |-> BaseModel, is_embed |-> embed, tensor_parameters |-> params,
     int8_mask |-> int8, normalize |-> norm, rescale |-> resc]

\* the state at the call of execute; the base tensor is of its own dtype, the
\* other models' tensors may be of a wider one
InitWith(tk, tm) ==
    /\ task = tk
    /\ tensors = tm
    /\ tensors0 = tm
    /\ pc = "start"
    /\ keys = <<>>
    /\ i = 0
    /\ base = NoTensor
    /\ tvs = <<>>
    /\ warnings = <<>>
    /\ sparsify_calls = 0
    /\ deltas = <<>>
    /\ weights = <<>>
    /\ weighted_deltas = <<>>
    /\ mask = <<>>
    /\ divisor = <<>>
    /\ mixed_delta = <<>>
    /\ result = NoTensor

\* Numeric inputs: one or two models of the base's shape, one element each,
\* over values that cancel, round and absorb, and weights that vanish and cancel.
BaseVals == {0, 7 * Unit}

ModelVals == {-Unit, 1, Unit, 2 * Unit + 1}

WeightVals == {-Unit, 0, Unit, 2 * Unit}

NumMethods == {"none", "rank_magnitude_sampling", "consensus_ta", "consensus_ties"}

InitNum ==
    \E n \in 1..2, sm \in NumMethods, cm \in ConsensusMethods, norm \in BOOLEAN :
    \E b \in (IF n = 1 THEN BaseVals ELSE {0}) :
    \E vals \in [1..n -> ModelVals], ws \in [1..n -> WeightVals],
       k \in (IF UsesTallMask([sparsification_method |-> sm]) THEN {1, n + 1} ELSE {1}) :
        InitWith(Task(sm, cm, FALSE,
                      [m \in 1..n |-> [weight |-> ws[m], density |-> Unit,
                                       lambda |-> Unit, k |-> k]],
                      FALSE, norm, FALSE),
                 TensorMapOf(CastTensor(Tensor(<<1>>, <<b>>)),
                             [m \in 1..n |-> Tensor(<<1>>, <<vals[m]>>)], 1))

\* Shape inputs: up to MaxModels models whose shapes agree with the base's or
\* differ from it (larger, smaller, of another rank), the base first or last in
\* the dict, every method; the flags vary where at most one model takes part.
BaseShapes == { <<2>>, <<3, 2>> }

ShapesFor(bshape) ==
    IF Len(bshape) = 1 THEN { <<2>>, <<3>>, <<2, 1>> }
    ELSE { <<3, 2>>, <<3, 3>>, <<2, 2>>, <<1, 2>> }

ShapeParams(n) ==
    [m \in 1..n |-> [weight |-> m * Unit, density |-> Unit,
                     lambda |-> m * Unit, k |-> m]]

InitShape ==
    \E n \in 0..MaxModels, embed \in BOOLEAN, bshape \in BaseShapes,
       sm \in SparsificationMethods, cm \in ConsensusMethods :
    \E p \in {1, n + 1}, shapes \in [1..n -> ShapesFor(bshape)],
       flags \in (IF n <= 1 THEN BOOLEAN \X BOOLEAN \X BOOLEAN
                            ELSE {<<FALSE, TRUE, FALSE>>}) :
        InitWith(Task(sm, cm, embed, ShapeParams(n), flags[1], flags[2], flags[3]),
                 TensorMapOf(CastTensor(Fill(bshape, Unit)),
                             [m \in 1..n |->
                                 Fill(shapes[m], IF m % 2 = 1 THEN 2 * Unit ELSE -Unit)],
                             p))

\* The worked example: base zeros(4), deltas [1,1,-1,-1] and [1,-1,1,-1],
\* weights 1.0, no sparsification.
InitExample ==
    \E cm \in ConsensusMethods, norm \in BOOLEAN :
        InitWith(Task("none", cm, FALSE,
                      [m \in 1..2 |-> [weight |-> Unit, density |-> Unit,
                                       lambda |-> Unit, k |-> 1]],
                      FALSE, norm, FALSE),
                 TensorMapOf(CastTensor(Tensor(<<4>>, <<0, 0, 0, 0>>)),
                             << Tensor(<<4>>, <<Unit, Unit, -Unit, -Unit>>),
                                Tensor(<<4>>, <<Unit, -Unit, Unit, -Unit>>) >>, 1))

Init == InitNum \/ InitShape \/ InitExample

Next ==
    \/ GetTaskVectorsStart
    \/ LoopBase
    \/ LoopAppend
    \/ LoopSubmatrix
    \/ LoopRaise
    \/ LoopSkip
    \/ GetTaskVectorsReturn
    \/ ReturnBase
    \/ Sparsify
    \/ StackRaw
    \/ Weigh
    \/ MixConsensus
    \/ MixPlain
    \/ Normalize
    \/ LambdaScale
    \/ TallMaskTrim
    \/ NoTrim
    \/ Return

Spec == Init /\ [][Next]_vars

\* ------------------------------------------------- the call as one function
\* execute from the descriptors on, as one relation: r is what the call returns
\* for these descriptors (the primitives' results read from them), the stages
\* composed in the order of the source; each stage's value is bound once
ExecuteReturns(descriptors, b, tk, r) ==
    IF descriptors = <<>> THEN r = b
    ELSE
    \A ds \in { [j \in 1..Len(descriptors) |->
                   IF SparsifiesFirst(tk.method) THEN descriptors[j].sparsified_delta
                                                 ELSE descriptors[j].delta] } :
    \A ws \in { Weights(descriptors) } :
    \A wd \in { WeightedDeltas(ds, ws) } :
    \A m \in { IF tk.method.consensus_method # "none"
               THEN GetMask(wd, tk.method.consensus_method, tk.int8_mask)
               ELSE <<>> } :
    \A mixed0 \in { IF tk.method.consensus_method # "none" THEN MaskedMix(wd, m)
                                                         ELSE PlainMix(wd) } :
    \A dv \in { IF tk.method.consensus_method # "none"
                THEN MaskedDivisor(ws, m)
                ELSE PlainDivisor(ws, Len(wd[1])) } :
    \A mixed1 \in { IF tk.normalize THEN Normalized(mixed0, dv) ELSE mixed0 } :
    \A mixed2 \in { IF tk.method.sparsification_method = "rank_magnitude_sampling"
                    THEN [e \in 1..Len(mixed1) |->
                             FMul(mixed1[e], LambdaFactor(descriptors))]
                    ELSE mixed1 } :
    \A mixed3 \in { IF UsesTallMask(tk.method)
                    THEN Trimmed(mixed2, ConsensusMask(descriptors))
                    ELSE mixed2 } :
        r = Output(b, mixed3)

\* get_task_vectors on a TensorMap all of whose tensors have the base's shape:
\* one descriptor per non-base model, in the order of the dict
DescriptorsOf(tm, tk) ==
    LET b  == Get(tm, tk.base_model)
        nb == SelectSeq(tm, LAMBDA en : en.model # tk.base_model)
    IN  [j \in 1..Len(nb) |->
            Descriptor(nb[j].model, BSub(CastTensor(nb[j].t), b),
                       tk.tensor_parameters[nb[j].model])]

\* ------------------------------------------------------------------ claims
\* what the claims speak of
Models(descriptors) == { descriptors[j].model : j \in 1..Len(descriptors) }

Skipped == { warnings[j].model : j \in { x \in 1..Len(warnings) : warnings[x].kind = "skipping" } }

BaseTensor0 == Get(tensors0, BaseModel)

\* the non-base models of the TensorMap whose shape differs from the base's
Mismatched ==
    { tensors0[j].model : j \in { x \in 1..Len(tensors0) :
          tensors0[x].model # BaseModel /\ tensors0[x].t.shape # BaseTensor0.shape } }

\* get_task_vectors has returned
Collected == pc \notin {"start", "loop", "raised"}

\* the loop of get_task_vectors has run to its end (the call may have raised since)
LoopFinished == pc \notin {"start", "loop"} /\ i > Len(keys)

\* C10: after get_task_vectors returns, the TensorMap has lost exactly the
\* entries of the models that got a descriptor; the base's entry and the
\* entries of the skipped models are present and unmodified; the returned base
\* is the map's base tensor; there are as many descriptors as non-base models
\* less the skipped ones.
C10_DrainFrame ==
    Collected =>
        /\ tensors = SelectSeq(tensors0, LAMBDA en : en.model \notin Models(tvs))
        /\ BaseModel \notin Models(tvs)
        /\ HasKey(tensors, BaseModel)
        /\ Get(tensors, BaseModel) = BaseTensor0
        /\ base = BaseTensor0
        /\ \A m \in Skipped : HasKey(tensors, m) /\ Get(tensors, m) = Get(tensors0, m)
        /\ Len(tvs) = (Len(tensors0) - 1) - Cardinality(Skipped)
        /\ Cardinality(Models(tvs)) = Len(tvs)

\* C10 witness: get_task_vectors returned having drained one model and skipped another
C10_Witness ==
    /\ pc = "collected"
    /\ Len(tvs) >= 1
    /\ Cardinality(Skipped) >= 1
    /\ Len(tensors) < Len(tensors0)

\* C6: when get_task_vectors yields no descriptor, execute returns the base
\* tensor unchanged and raises nothing, whatever the method and the flags: from
\* the return of get_task_vectors the only step is the return of the base.
C6_ZeroContributors ==
    (LoopFinished /\ tvs = <<>>) =>
        /\ pc \in {"collected", "done"}
        /\ pc = "collected" => ENABLED ReturnBase
        /\ pc = "done" => result = BaseTensor0 /\ result = base
        /\ sparsify_calls = 0

\* C6 witness: every non-base model was skipped, the flags all set, and the base came back
C6_Witness ==
    /\ pc = "done"
    /\ tvs = <<>>
    /\ Cardinality(Skipped) >= 1
    /\ task.int8_mask /\ task.rescale /\ task.normalize
    /\ task.method.sparsification_method = "consensus_ties"
    /\ task.method.consensus_method = "sum"
    /\ result = BaseTensor0

\* the descriptors of the merge run on the TensorMap without the mismatched
\* models, carrying the primitives' results of this run
RemainingDescriptors ==
    LET ref == DescriptorsOf(SelectSeq(tensors0, LAMBDA en : en.model \notin Mismatched),
                             task)
    IN  [j \in 1..Len(ref) |->
            [ref[j] EXCEPT !.sparsified_delta = tvs[j].sparsified_delta,
                           !.tall_mask = tvs[j].tall_mask]]

\* C5: for a non-embedding weight, a model whose shape differs from the base's
\* gets no descriptor and a warning is recorded, and the output equals the
\* output of the merge run on the TensorMap without that model, for every
\* method (also those that read lambda or k from the first descriptor).
C5_SkipEquivalence ==
    (pc = "done" /\ ~task.is_embed) =>
        /\ Skipped = Mismatched
        /\ Models(tvs) \cap Mismatched = {}
        /\ Len(tvs) = Len(tensors0) - 1 - Cardinality(Mismatched)
        /\ \A remaining \in { RemainingDescriptors } :
               /\ tvs = remaining
               /\ ExecuteReturns(remaining, BaseTensor0, task, result)

\* C5 witness: the first model of the dict was skipped, another one merged,
\* under a method that reads lambda from the first descriptor
C5_Witness ==
    /\ pc = "done"
    /\ ~task.is_embed
    /\ Len(tvs) >= 1
    /\ Cardinality(Mismatched) = 1
    /\ tensors0[1].model \in Mismatched
    /\ task.method.sparsification_method = "rank_magnitude_sampling"
    /\ result # base

\* the tensor of the model the loop of get_task_vectors stands at
Current == Get(tensors, keys[i])

\* C2 (as claimed): every descriptor's delta has the base's shape, and an
\* embedding tensor that differs from the base in shape, larger or smaller on
\* an axis, is reduced to the base's shape and gets a descriptor.
C2_ShapeInvariant ==
    /\ \A j \in 1..Len(tvs) : tvs[j].delta.shape = base.shape
    /\ \A j \in 1..Len(deltas) : deltas[j].shape = base.shape
    /\ (pc = "raised" /\ task.is_embed) =>
          ~(Len(base.shape) = 2 /\ Len(Current.shape) = 2)

\* the raw deltas of the descriptors
RawDeltas == [j \in 1..Len(tvs) |-> tvs[j].delta]

SparsifiedDeltas == [j \in 1..Len(tvs) |-> tvs[j].sparsified_delta]

\* the deltas have been stacked
Stacked == Collected /\ pc # "collected" /\ tvs # <<>>

Method == task.method.sparsification_method

\* C4 (as claimed): for consensus_ta and consensus_ties no sparsification
\* primitive is invoked and the raw deltas are aggregated; for magnitude,
\* magnitude_outliers and rank_magnitude_sampling the sparsified deltas are.
C4_NoSparsifyForConsensus ==
    Stacked =>
        /\ Method \in {"consensus_ta", "consensus_ties"} =>
              sparsify_calls = 0 /\ deltas = RawDeltas
        /\ Method \in {"magnitude", "magnitude_outliers", "rank_magnitude_sampling"} =>
              sparsify_calls = Len(tvs) /\ deltas = SparsifiedDeltas

\* C4 (amended): for consensus_ta alone (and with no method) no sparsification
\* primitive is invoked and the raw deltas are aggregated; for consensus_ties,
\* as for magnitude, magnitude_outliers and rank_magnitude_sampling, sparsify
\* is invoked once per descriptor and the sparsified deltas are aggregated; the
\* tall masks are computed for consensus_ta and consensus_ties and for no other.
C4_SparsifyDispatch ==
    Stacked =>
        /\ Method \in {"none", "consensus_ta"} =>
              sparsify_calls = 0 /\ deltas = RawDeltas
        /\ Method \in {"magnitude", "magnitude_outliers", "rank_magnitude_sampling",
                       "consensus_ties"} =>
              sparsify_calls = Len(tvs) /\ deltas = SparsifiedDeltas
        /\ \A j \in 1..Len(tvs) :
              /\ tvs[j].tall_mask # <<>> => Method \in {"consensus_ta", "consensus_ties"}
              /\ (pc = "done" /\ Method \in {"consensus_ta", "consensus_ties"}) =>
                    tvs[j].tall_mask # <<>>

\* C4 witness: consensus_ties, sparsify invoked, a sparsified delta that
\* differs from the raw one aggregated
C4_Witness ==
    /\ pc = "stacked"
    /\ Method = "consensus_ties"
    /\ sparsify_calls > 0
    /\ deltas # RawDeltas

\* the elements of the base tensor
Elements == 1..Numel(base)

AllWeightsZero == \A j \in 1..Len(weights) : weights[j] = 0

HasConsensus == task.method.consensus_method # "none"

\* the models the consensus mask selects at element e
Selected(e) == { j \in 1..Len(mask) : mask[j][e] }

\* (weights * mask).sum(dim=0) at element e, before the zero guard
RawMaskedDivisor(e) ==
    SumDim0([j \in 1..Len(mask) |-> [x \in 1..Len(mask[j]) |->
                                       BoolMul(weights[j], mask[j][x])]], e)

Opposite(e) ==
    /\ Len(deltas) = 2
    /\ deltas[1].data[e] # 0
    /\ deltas[1].data[e] = -deltas[2].data[e]

\* the positive sign in mask_dtype
Positive == IF task.int8_mask THEN 1 ELSE Unit

\* the "count" and "sum" rules agree at element e, on the positive sign
RulesAgree(e) ==
    /\ MajoritySign(weighted_deltas, "count", task.int8_mask, e) = Positive
    /\ MajoritySign(weighted_deltas, "sum", task.int8_mask, e) = Positive
    /\ \A j \in 1..2 :
          GetMask(weighted_deltas, "count", task.int8_mask)[j][e]
              = GetMask(weighted_deltas, "sum", task.int8_mask)[j][e]

\* the deltas have been weighted
Weighted == Stacked /\ pc # "stacked"

\* C3 (as claimed): with two models whose deltas are equal in magnitude and
\* opposite in sign at an element, whatever the weights, "count" and "sum"
\* elect the same majority sign there, the positive one, and give the same mask.
C3_MaskEquivalenceAnyWeights ==
    Weighted => \A e \in Elements : Opposite(e) => RulesAgree(e)

\* C3 (amended): with two models of equal weight whose deltas are equal in
\* magnitude and opposite in sign at an element, "count" and "sum" elect the
\* same majority sign there, the positive one, and give the same mask, which
\* is the mask execute uses under either rule.
C3_MaskEquivalence ==
    Weighted =>
        \A e \in Elements :
            (Opposite(e) /\ weights[1] = weights[2]) =>
                /\ RulesAgree(e)
                /\ (HasConsensus /\ mask # <<>>) =>
                      \A j \in 1..2 :
                          mask[j][e] = GetMask(weighted_deltas, "sum",
                                               task.int8_mask)[j][e]

\* C3 witness: two opposite deltas of equal non-zero weight under the count rule
C3_Witness ==
    /\ pc = "mixed"
    /\ task.method.consensus_method = "count"
    /\ \E e \in Elements : Opposite(e) /\ weights[1] = weights[2] /\ weights[1] # 0

\* the tall-mask trim has run
TrimmedNow == pc \in {"trimmed", "done"} /\ tvs # <<>>

\* C7: under consensus_ta or consensus_ties, when the k of the first descriptor
\* exceeds the number of descriptors, the consensus mask is false everywhere
\* whatever the tall masks, the trimmed mixed delta is zero everywhere and the
\* output is the base tensor.
C7_TallMaskLaw ==
    (TrimmedNow /\ UsesTallMask(task.method) /\ tvs[1].k > Len(tvs)) =>
        /\ \A e \in Elements : ~ConsensusMask(tvs)[e] /\ mixed_delta[e] = 0
        /\ pc = "done" => result = base /\ result = BaseTensor0

\* C7 witness: k above the number of descriptors, a tall mask true everywhere,
\* deltas that do not vanish, and the base returned
C7_Witness ==
    /\ pc = "done"
    /\ UsesTallMask(task.method)
    /\ tvs # <<>>
    /\ tvs[1].k > Len(tvs)
    /\ \A j \in 1..Len(tvs) : \A e \in Elements : tvs[j].tall_mask[e]
    /\ \E e \in Elements : weighted_deltas[1][e] # 0
    /\ result = base

\* the single-model case: one non-base model of the base's shape, weight 1.0,
\* normalize, no sparsification method, no consensus method
OnlyModel == tensors0[CHOOSE j \in 1..Len(tensors0) : tensors0[j].model # BaseModel]

SingleModel ==
    /\ Len(tensors0) = 2
    /\ OnlyModel.t.shape = BaseTensor0.shape
    /\ task.tensor_parameters[OnlyModel.model].weight = Unit
    /\ task.normalize
    /\ Method = "none"
    /\ ~HasConsensus

\* C8 (as claimed): in the single-model case execute returns exactly the
\* model's tensor, at every element.
C8_SingleModelExact ==
    (pc = "done" /\ SingleModel) => result = OnlyModel.t

\* C8 (amended): in the single-model case execute returns, at every element,
\* base + (model - base) as the base's dtype computes it: the model's value is
\* cast to the dtype, and the difference and the sum are each rounded.  That is
\* exactly the model's value wherever the model's value is a number of the
\* dtype and model - base is computed without rounding.
C8_SingleModelIdentity ==
    (pc = "done" /\ SingleModel) =>
        \A e \in Elements :
            LET b == BaseTensor0.data[e]
                x == OnlyModel.t.data[e]
            IN  /\ result.data[e] = Cast(FAdd(b, FSub(Cast(x), b)))
                /\ (Cast(x) = x /\ FSub(x, b) = x - b) => result.data[e] = x

\* C8 witness: the single-model case with a model that differs from the base
\* and comes back exactly
C8_Witness ==
    /\ pc = "done"
    /\ SingleModel
    /\ result = OnlyModel.t
    /\ result # base

\* the worked example of the specification, under sum consensus and normalize
IsExample ==
    /\ tensors0 = << [model |-> BaseModel, t |-> Tensor(<<4>>, <<0, 0, 0, 0>>)],
                     [model |-> 1, t |-> Tensor(<<4>>, <<Unit, Unit, -Unit, -Unit>>)],
                     [model |-> 2, t |-> Tensor(<<4>>, <<Unit, -Unit, Unit, -Unit>>)] >>
    /\ task.tensor_parameters[1].weight = Unit
    /\ task.tensor_parameters[2].weight = Unit
    /\ Method = "none"
    /\ task.method.consensus_method = "sum"
    /\ task.normalize

\* C9: in the worked example the majority sign is [+,+,+,-], the mask selects
\* entries 1, 2, 4 of model A and 1, 3, 4 of model B, the mixed delta is
\* [2,1,1,-2], the divisor [2,1,1,2], and the output [1,1,1,-1].
C9_EndToEnd ==
    IsExample =>
        /\ pc \in {"mixed", "normalized", "scaled", "trimmed", "done"} =>
              /\ \A e \in 1..4 :
                    MajoritySign(weighted_deltas, "sum", task.int8_mask, e)
                        = (IF e = 4 THEN -Positive ELSE Positive)
              /\ mask = << <<TRUE, TRUE, FALSE, TRUE>>, <<TRUE, FALSE, TRUE, TRUE>> >>
              /\ divisor = <<2 * Unit, Unit, Unit, 2 * Unit>>
        /\ pc = "mixed" => mixed_delta = <<2 * Unit, Unit, Unit, -(2 * Unit)>>
        /\ pc \in {"normalized", "scaled", "trimmed", "done"} =>
              mixed_delta = <<Unit, Unit, Unit, -Unit>>
        /\ pc = "done" => result = Tensor(<<4>>, <<Unit, Unit, Unit, -Unit>>)

\* C9 witness: the worked example has run to its end
C9_Witness == IsExample /\ pc = "done" /\ result.data[4] = -Unit

====
